---- MODULE Spec2Model ----
(***************************************************************************)
(* Lifecycle of the multi-bot launcher of telegram_openai_assistant/bot.py *)
(* main() -> asyncio.run(start_bots()) -> asyncio.gather(bot.run() ...).   *)
(* Every Bot.run() is one asyncio task; its position is pc[i].             *)
(***************************************************************************)
EXTENDS Naturals, Sequences, FiniteSets

\* ------------------------------------------------------------- bounds
\* longest configuration list of the lifecycle specification Spec
MaxBots == 2
\* longest configuration list of the construction specification SpecLaunch
MaxPairs == 3
\* KeyboardInterrupts delivered in one run
MaxSignals == 2
\* stop() calls made in one run, over all instances
MaxStopCalls == 2

\* configuration values: SpecLaunch draws both lists freely from these
Tokens == {"tokA", "tokB"}
AssistantIds == {"asst1", "asst2"}
\* Spec runs the lifecycle on prefixes of these lists
TokenList == << "tokA", "tokB", "tokC", "tokD" >>
AssistantIdList == << "asst1", "asst2", "asst3", "asst4" >>

VARIABLES
    telegram_token_bots,  \* config.telegram_token_bots
    assistant_id_bots,    \* config.assistant_id_bots
    bots,                 \* the list built by start_bots
    pc,                   \* pc[i]: position of bots[i].run()
    cancelReq,            \* cancelReq[i]: task i has a cancellation pending or delivered
    endedAt,              \* endedAt[i]: the position at which run() ended, or "none"
    shutdownCalls,        \* shutdownCalls[i]: application.shutdown() calls made by stop()
    main,                 \* position of main() / asyncio.run
    startBots,            \* completion of the start_bots() coroutine
    mainResult,           \* how main() ended
    errorLogged,          \* logger.error of the configuration check was emitted
    interrupts,           \* KeyboardInterrupts (SIGINT) received inside asyncio.run
    application,          \* application[i]: the handlers bound and registered by bots[i]
    steps,                \* steps[i]: the calls of run() that have completed, in order
    call,                 \* call[i]: the latest dispatcher exchange of instance i
    last                  \* the latest inbound event handled, by any instance

vars == << telegram_token_bots, assistant_id_bots, bots, pc, cancelReq, endedAt,
           shutdownCalls, main, startBots, mainResult, errorLogged,
           interrupts, application, steps, call, last >>

\* ------------------------------------------------------------- helpers
SeqsUpTo(S, n) == UNION { [1..k -> S] : k \in 0..n }

Min(a, b) == IF a <= b THEN a ELSE b

BotSwapped(token, asst_id) == [telegram_token |-> asst_id, assistant_id |-> token]

\* Bot.__init__: the instance keeps its own token and assistant id
Bot(token, asst_id) == [telegram_token |-> token, assistant_id |-> asst_id]

\* zip(telegram_token_bots, assistant_id_bots): positional, cut at the shorter list
ZipEqualOnly(ts, as) ==
    IF Len(ts) = Len(as) THEN [k \in 1..Len(ts) |-> << ts[k], as[k] >>] ELSE << >>

Zip(ts, as) == [k \in 1..Min(Len(ts), Len(as)) |-> << ts[k], as[k] >>]

ConfigMissingBoth == telegram_token_bots = << >> /\ assistant_id_bots = << >>

\* `if not telegram_token_bots or not assistant_id_bots`
ConfigMissing == telegram_token_bots = << >> \/ assistant_id_bots = << >>

BotHandlersOfFirst(b) ==
    [assistant_id |-> assistant_id_bots[1], telegram_token |-> telegram_token_bots[1]]

\* line 52: BotHandlers(self.assistant_id, self.telegram_token)
BotHandlers(b) == [assistant_id |-> b.assistant_id, telegram_token |-> b.telegram_token]

SetupHandlersTextFirst ==
    << [filter |-> "text", name |-> "", callback |-> "process_message"],
       [filter |-> "command", name |-> "start", callback |-> "start"],
       [filter |-> "command", name |-> "help", callback |-> "help_command"] >>

\* lines 58-62: the handlers of the application, in the order they are added
SetupHandlers ==
    << [filter |-> "command", name |-> "start", callback |-> "start"],
       [filter |-> "command", name |-> "help", callback |-> "help_command"],
       [filter |-> "text_not_command", name |-> "", callback |-> "process_message"] >>

\* inbound events: the two registered commands, another command, a plain text
Updates ==
    { [is_command |-> TRUE, text |-> "start"],
      [is_command |-> TRUE, text |-> "help"],
      [is_command |-> TRUE, text |-> "other"],
      [is_command |-> FALSE, text |-> "hello"] }

\* CommandHandler(name, ...) takes the command of that name; filters.TEXT &
\* ~filters.COMMAND takes text that is no command; filters.TEXT takes any text
Matches(h, u) ==
    IF h.filter = "command" THEN u.is_command /\ u.text = h.name
    ELSE IF h.filter = "text_not_command" THEN ~u.is_command
    ELSE TRUE

\* the application hands an update to the first registered handler that takes it
RECURSIVE Route(_, _)
Route(hs, u) ==
    IF hs = << >> THEN "none"
    ELSE IF Matches(Head(hs), u) THEN Head(hs).callback
    ELSE Route(Tail(hs), u)

NoEvent == [bot |-> 0, update |-> [is_command |-> FALSE, text |-> ""], callback |-> "none", assistant_id |-> "none",
            token |-> "none"]

PcAtConstructTask == "created"

\* a Bot is built before any task exists for its run()
PcAtConstruct == "constructed"

AfterSkipCommands(p) ==
    IF p = "created" THEN "initialize"
    ELSE "run_polling"

\* lines 69-79: the order of the awaited calls of run()
After(p) ==
    IF p = "created" THEN "initialize"
    ELSE IF p = "initialize" THEN "set_my_commands"
    ELSE "run_polling"

\* an exchange with the dispatcher that is in flight when run() ends is cut off
Cut(c) == IF c = "in_flight" THEN "cut" ELSE c

Instances == 1..Len(bots)

RECURSIVE SumTo(_, _)
SumTo(f, n) == IF n = 0 THEN 0 ELSE f[n] + SumTo(f, n - 1)

\* stop() calls made so far, over all instances
StopCallsMade == SumTo(shutdownCalls, Len(shutdownCalls))

Terminal(i) == pc[i] \in {"returned", "raised", "cancelled"}

\* the run state of instance i, read off the position of its run() and the
\* stop requests made on it
RunState(i) ==
    IF Terminal(i) THEN "Stopped"
    ELSE IF cancelReq[i] \/ shutdownCalls[i] > 0 THEN "Stopping"
    ELSE IF pc[i] \in {"constructed", "created"} THEN "Created"
    ELSE IF pc[i] = "run_polling" THEN "Polling"
    ELSE "Initializing"

\* the event loop is running tasks: inside run_until_complete(start_bots()) or
\* inside the run_until_complete of asyncio.run's task cancellation
LoopRunning == main \in {"gather", "wait_cancelled"}

ScheduledInOrder(i) ==
    LoopRunning /\ ~cancelReq[i] /\ \A j \in 1..(i - 1) : Terminal(j)

\* line 108: gather makes every run() a task of its own, so the loop steps
\* run() of instance i whenever its awaited call completes, whatever the
\* other tasks are waiting for, until a cancellation is pending on it
Scheduled(i) == LoopRunning /\ ~cancelReq[i]

\* task.cancel() on every task that is not done
CancelPending ==
    [i \in Instances |-> cancelReq[i] \/ (~Terminal(i) /\ pc[i] # "constructed")]

GatherResultSwallow ==
    IF \A i \in Instances : Terminal(i) THEN "returned" ELSE "pending"

\* asyncio.gather(*runs) without return_exceptions: the first exception is raised
\* to the awaiter at once; the result is delivered when every run() has returned
GatherResult ==
    IF \E i \in Instances : pc[i] = "raised" THEN "raised"
    ELSE IF \A i \in Instances : pc[i] = "returned" THEN "returned"
    ELSE "pending"

TeardownNoWait == TRUE

\* asyncio.run waits for every cancelled task before it closes the loop
TeardownComplete == \A i \in Instances : Terminal(i) \/ pc[i] = "constructed"

MainOutcomeCatchAll(n) == "returned"

MainOutcomeNoExcept(n) ==
    IF n > 0 \/ startBots = "raised" THEN "raised" ELSE "returned"

\* main(), with n KeyboardInterrupts received: `except KeyboardInterrupt`
\* only, so any other exception of asyncio.run leaves main()
MainOutcome(n) ==
    IF n > 0 THEN "returned"
    ELSE IF startBots = "raised" THEN "raised"
    ELSE "returned"

OnRaiseRetry(p) == "initialize"

\* run() has no try/except: an exception of any awaited call ends run()
OnRaise(p) == "raised"

\* ------------------------------------------------------------- Init
\* main() has been entered; nothing is built yet
Constructed0 ==
    /\ bots = << >>
    /\ pc = << >>
    /\ cancelReq = << >>
    /\ endedAt = << >>
    /\ shutdownCalls = << >>
    /\ main = "start_bots"
    /\ startBots = "pending"
    /\ mainResult = "none"
    /\ errorLogged = FALSE
    /\ interrupts = 0
    /\ application = << >>
    /\ steps = << >>
    /\ call = << >>
    /\ last = NoEvent

\* the two configuration lists are read from the environment: any lists
InitLaunch ==
    /\ telegram_token_bots \in SeqsUpTo(Tokens, MaxPairs)
    /\ assistant_id_bots \in SeqsUpTo(AssistantIds, MaxPairs)
    /\ Constructed0

Init ==
    /\ \E n \in 0..MaxBots : telegram_token_bots = SubSeq(TokenList, 1, n)
    /\ \E n \in 0..MaxBots : assistant_id_bots = SubSeq(AssistantIdList, 1, n)
    /\ Constructed0

botVars == << bots, pc, cancelReq, endedAt, shutdownCalls, application, steps, call >>
cfgVars == << telegram_token_bots, assistant_id_bots >>

\* ------------------------------------------------------------- start_bots
\* lines 93-98: the configuration check
CheckConfig ==
    /\ main = "start_bots"
    /\ IF ConfigMissing
       THEN /\ errorLogged' = TRUE
            /\ startBots' = "returned"
            /\ main' = "cancel_all"
       ELSE /\ main' = "construct"
            /\ UNCHANGED << errorLogged, startBots >>
    /\ UNCHANGED << cfgVars, last, botVars, mainResult, interrupts >>

\* lines 100-103: one Bot(token, asst_id) per zipped pair, in order
ConstructBot ==
    /\ main = "construct"
    /\ Len(bots) < Len(Zip(telegram_token_bots, assistant_id_bots))
    /\ LET pair == Zip(telegram_token_bots, assistant_id_bots)[Len(bots) + 1]
       IN  bots' = Append(bots, Bot(pair[1], pair[2]))
    /\ pc' = Append(pc, PcAtConstruct)
    /\ cancelReq' = Append(cancelReq, FALSE)
    /\ endedAt' = Append(endedAt, "none")
    /\ shutdownCalls' = Append(shutdownCalls, 0)
    /\ LET pair == Zip(telegram_token_bots, assistant_id_bots)[Len(bots) + 1]
       IN  application' = Append(application,
               [handlers |-> BotHandlers(Bot(pair[1], pair[2])),
                registered |-> SetupHandlers])
    /\ steps' = Append(steps, << >>)
    /\ call' = Append(call, "idle")
    /\ UNCHANGED << cfgVars, last, main, startBots, mainResult, errorLogged,
                    interrupts >>

\* lines 47-49: ApplicationBuilder().token(...).build() raises inside the
\* list comprehension: start_bots raises before gather is reached
ConstructRaises ==
    /\ main = "construct"
    /\ Len(bots) < Len(Zip(telegram_token_bots, assistant_id_bots))
    /\ startBots' = "raised"
    /\ main' = "cancel_all"
    /\ UNCHANGED << cfgVars, last, botVars, mainResult, errorLogged, interrupts >>

\* line 108: gather wraps every bot.run() in a task and start_bots awaits them
Launch ==
    /\ main = "construct"
    /\ Len(bots) = Len(Zip(telegram_token_bots, assistant_id_bots))
    /\ main' = "gather"
    /\ pc' = [i \in Instances |-> "created"]
    /\ UNCHANGED << cfgVars, last, bots, cancelReq, endedAt, shutdownCalls, application,
                    steps, call, startBots, mainResult, errorLogged, interrupts >>

\* line 108: the awaited gather completes, so start_bots returns or raises
GatherCompletes ==
    /\ main = "gather"
    /\ GatherResult # "pending"
    /\ startBots' = GatherResult
    /\ main' = "cancel_all"
    /\ UNCHANGED << cfgVars, last, botVars, mainResult, errorLogged, interrupts >>

\* ------------------------------------------------------------- Bot.run
\* line 69: the task's first step reaches `await self.application.initialize()`
RunStart(i) ==
    /\ Scheduled(i) /\ pc[i] = "created"
    /\ pc' = [pc EXCEPT ![i] = After(pc[i])]
    /\ UNCHANGED << cfgVars, last, bots, cancelReq, endedAt, shutdownCalls,
                    application, steps, call,
                    main, startBots, mainResult, errorLogged, interrupts >>

\* lines 69-71: initialize() returned, run() awaits set_my_commands()
InitializeOk(i) ==
    /\ Scheduled(i) /\ pc[i] = "initialize"
    /\ pc' = [pc EXCEPT ![i] = After(pc[i])]
    /\ steps' = [steps EXCEPT ![i] = Append(@, pc[i])]
    /\ UNCHANGED << cfgVars, last, bots, cancelReq, endedAt, shutdownCalls,
                    application, call,
                    main, startBots, mainResult, errorLogged, interrupts >>

\* lines 71-79: set_my_commands() returned, run() awaits run_polling()
SetCommandsOk(i) ==
    /\ Scheduled(i) /\ pc[i] = "set_my_commands"
    /\ pc' = [pc EXCEPT ![i] = After(pc[i])]
    /\ steps' = [steps EXCEPT ![i] = Append(@, pc[i])]
    /\ UNCHANGED << cfgVars, last, bots, cancelReq, endedAt, shutdownCalls,
                    application, call,
                    main, startBots, mainResult, errorLogged, interrupts >>

\* line 79: run_polling() "blocks until shutdown": it returns once the
\* application has been shut down through stop()
PollingReturns(i) ==
    /\ Scheduled(i) /\ pc[i] = "run_polling"
    /\ shutdownCalls[i] > 0
    /\ pc' = [pc EXCEPT ![i] = "returned"]
    /\ endedAt' = [endedAt EXCEPT ![i] = pc[i]]
    /\ call' = [call EXCEPT ![i] = Cut(@)]
    /\ UNCHANGED << cfgVars, last, bots, cancelReq, shutdownCalls, application, steps,
                    main, startBots, mainResult, errorLogged, interrupts >>

\* lines 69, 71, 79: the awaited call raises (rejected credential, network
\* failure, credential revoked while polling)
Raise(i) ==
    /\ Scheduled(i)
    /\ pc[i] \in {"initialize", "set_my_commands", "run_polling"}
    /\ pc' = [pc EXCEPT ![i] = OnRaise(pc[i])]
    /\ endedAt' = [endedAt EXCEPT ![i] = pc[i]]
    /\ call' = [call EXCEPT ![i] = Cut(@)]
    /\ UNCHANGED << cfgVars, last, bots, cancelReq, shutdownCalls, application, steps,
                    main, startBots, mainResult, errorLogged, interrupts >>

\* CancelledError is thrown into run() at its await (or before its first
\* step); run() does not catch it
CancelDelivered(i) ==
    /\ LoopRunning /\ cancelReq[i] /\ ~Terminal(i)
    /\ pc' = [pc EXCEPT ![i] = "cancelled"]
    /\ endedAt' = [endedAt EXCEPT ![i] = pc[i]]
    /\ call' = [call EXCEPT ![i] = Cut(@)]
    /\ UNCHANGED << cfgVars, last, bots, cancelReq, shutdownCalls, application, steps,
                    main, startBots, mainResult, errorLogged, interrupts >>

\* ------------------------------------------------------------- Bot.stop
\* lines 81-84: application.stop() then application.shutdown(), called
\* whatever state the instance is in and however often stop() was called
Stop(i) ==
    /\ LoopRunning
    /\ StopCallsMade < MaxStopCalls
    /\ shutdownCalls' = [shutdownCalls EXCEPT ![i] = @ + 1]
    /\ UNCHANGED << cfgVars, last, bots, pc, cancelReq, endedAt, application, steps, call,
                    main, startBots, mainResult, errorLogged, interrupts >>

\* ------------------------------------------------------------- main
\* asyncio.run, after start_bots completed: cancel every remaining task
CancelAllTasks ==
    /\ main = "cancel_all"
    /\ cancelReq' = CancelPending
    /\ main' = "wait_cancelled"
    /\ UNCHANGED << cfgVars, last, bots, pc, endedAt, shutdownCalls, application, steps,
                    call, startBots, mainResult, errorLogged, interrupts >>

\* asyncio.run returns or raises into main(); lines 113-116
Finish ==
    /\ main = "wait_cancelled"
    /\ TeardownComplete
    /\ main' = "exited"
    /\ mainResult' = MainOutcome(interrupts)
    /\ UNCHANGED << cfgVars, last, botVars, startBots, errorLogged, interrupts >>

\* KeyboardInterrupt while start_bots awaits gather: start_bots and every
\* unfinished run() are cancelled, asyncio.run waits for them, then
\* KeyboardInterrupt reaches main()
Signal ==
    /\ main = "gather"
    /\ interrupts < MaxSignals
    /\ interrupts' = interrupts + 1
    /\ cancelReq' = CancelPending
    /\ startBots' = "cancelled"
    /\ main' = "wait_cancelled"
    /\ UNCHANGED << cfgVars, last, bots, pc, endedAt, shutdownCalls, application, steps,
                    call, mainResult, errorLogged >>

\* KeyboardInterrupt while asyncio.run is cancelling and awaiting the tasks:
\* it aborts that wait and reaches main() with tasks unfinished; only the
\* second interrupt of a run may instead be absorbed (Python >= 3.11 runs the
\* task cancellation once more after it)
SignalDuringTeardown ==
    /\ main \in {"cancel_all", "wait_cancelled"}
    /\ interrupts < MaxSignals
    /\ interrupts' = interrupts + 1
    /\ \/ /\ main' = "exited"
          /\ mainResult' = MainOutcome(interrupts + 1)
       \/ /\ interrupts = 1
          /\ main = "wait_cancelled"
          /\ UNCHANGED << main, mainResult >>
    /\ UNCHANGED << cfgVars, last, botVars, startBots, errorLogged >>

Next ==
    \/ CheckConfig
    \/ ConstructBot
    \/ ConstructRaises
    \/ Launch
    \/ GatherCompletes
    \/ \E i \in Instances : RunStart(i)
    \/ \E i \in Instances : InitializeOk(i)
    \/ \E i \in Instances : SetCommandsOk(i)
    \/ \E i \in Instances : PollingReturns(i)
    \/ \E i \in Instances : Raise(i)
    \/ \E i \in Instances : CancelDelivered(i)
    \/ \E i \in Instances : Stop(i)
    \/ CancelAllTasks
    \/ Finish
    \/ Signal
    \/ SignalDuringTeardown

Spec == Init /\ [][Next]_vars

\* start_bots up to its gather call, over every configuration
NextLaunch ==
    \/ CheckConfig
    \/ ConstructBot
    \/ ConstructRaises
    \/ Launch

SpecLaunch == InitLaunch /\ [][NextLaunch]_vars

\* ------------------------------------------------------------- inbound events
\* BotHandlers.process_message: calls the dispatcher with the assistant id
\* the handlers object was built with and replies over its own token
ProcessMessage(h) == [assistant_id |-> h.assistant_id, token |-> h.telegram_token]

\* what handling update u on instance i amounts to: the callback that ran,
\* and for process_message the assistant id the dispatcher is called with and
\* the token of the connection the reply goes out on
HandledEvent(i, u, cb) ==
    [bot |-> i, update |-> u, callback |-> cb,
     assistant_id |-> IF cb = "process_message"
                      THEN ProcessMessage(application[i].handlers).assistant_id
                      ELSE "none",
     token |-> IF cb = "process_message"
               THEN ProcessMessage(application[i].handlers).token
               ELSE "none"]

\* a polling instance receives update u: its application routes it to a
\* registered callback; process_message starts an exchange with the
\* dispatcher, the command callbacks answer on the spot
Deliver(i, u) ==
    /\ Scheduled(i) /\ pc[i] = "run_polling"
    /\ call[i] # "in_flight"
    /\ LET cb == Route(application[i].registered, u)
       IN  /\ last' = HandledEvent(i, u, cb)
           /\ call' = [call EXCEPT ![i] = IF cb = "process_message" THEN "in_flight" ELSE @]
    /\ UNCHANGED << cfgVars, bots, pc, cancelReq, endedAt, shutdownCalls, application,
                    steps, main, startBots, mainResult, errorLogged, interrupts >>

\* the dispatcher answers and process_message sends the reply
DispatchReplies(i) ==
    /\ Scheduled(i) /\ pc[i] = "run_polling"
    /\ call[i] = "in_flight"
    /\ call' = [call EXCEPT ![i] = "replied"]
    /\ UNCHANGED << cfgVars, last, bots, pc, cancelReq, endedAt, shutdownCalls,
                    application, steps, main, startBots, mainResult, errorLogged,
                    interrupts >>

DispatchFailsCrashes(i) ==
    /\ Scheduled(i) /\ pc[i] = "run_polling"
    /\ call[i] = "in_flight"
    /\ call' = [call EXCEPT ![i] = "fallback"]
    /\ pc' = [pc EXCEPT ![i] = "raised"]
    /\ endedAt' = [endedAt EXCEPT ![i] = pc[i]]
    /\ UNCHANGED << cfgVars, last, bots, cancelReq, shutdownCalls,
                    application, steps, main, startBots, mainResult, errorLogged,
                    interrupts >>

\* the dispatcher fails (DispatchError): process_message sends the fallback
\* message and the instance goes on polling
DispatchFails(i) ==
    /\ Scheduled(i) /\ pc[i] = "run_polling"
    /\ call[i] = "in_flight"
    /\ call' = [call EXCEPT ![i] = "fallback"]
    /\ UNCHANGED << cfgVars, last, bots, pc, cancelReq, endedAt, shutdownCalls,
                    application, steps, main, startBots, mainResult, errorLogged,
                    interrupts >>

\* the launcher with inbound events, as main() runs it: nothing in the
\* program calls Bot.stop(), so run_polling() ends by failure or cancellation
NextMsg ==
    \/ CheckConfig
    \/ ConstructBot
    \/ ConstructRaises
    \/ Launch
    \/ GatherCompletes
    \/ \E i \in Instances : RunStart(i)
    \/ \E i \in Instances : InitializeOk(i)
    \/ \E i \in Instances : SetCommandsOk(i)
    \/ \E i \in Instances : Raise(i)
    \/ \E i \in Instances : CancelDelivered(i)
    \/ CancelAllTasks
    \/ Finish
    \/ Signal
    \/ SignalDuringTeardown
    \/ \E i \in Instances, u \in Updates : Deliver(i, u)
    \/ \E i \in Instances : DispatchReplies(i)
    \/ \E i \in Instances : DispatchFails(i)

SpecMsg == Init /\ [][NextMsg]_vars

\* the event loop steps every task that has a cancellation to receive, and
\* asyncio.run returns once its wait for the cancelled tasks is over
FairSpec ==
    /\ Spec
    /\ WF_vars(\E i \in Instances : CancelDelivered(i))
    /\ WF_vars(Finish)

\* ------------------------------------------------------------- claims
\* C1: the instances built so far are the first pairs of the configuration,
\* in order, each holding the token and the assistant id of its own pair
\* (equal pairs give instances of their own), and once start_bots reaches
\* its gather there is exactly one instance per pair.
C1_OneBotPerPair ==
    /\ Len(bots) <= Min(Len(telegram_token_bots), Len(assistant_id_bots))
    /\ \A i \in Instances :
          /\ bots[i].telegram_token = telegram_token_bots[i]
          /\ bots[i].assistant_id = assistant_id_bots[i]
    /\ Len(pc) = Len(bots)
    /\ main = "gather" =>
          Len(bots) = Min(Len(telegram_token_bots), Len(assistant_id_bots))

\* three pairs, the first two equal and the third different, all launched
C1_Witness ==
    /\ main = "gather"
    /\ Len(telegram_token_bots) = 3 /\ Len(assistant_id_bots) = 3
    /\ Len(bots) = 3
    /\ bots[1] = bots[2]
    /\ bots[3].telegram_token # bots[1].telegram_token
    /\ bots[3].assistant_id # bots[1].assistant_id

\* C2: with an empty configuration start_bots logs the configuration error,
\* builds no instance, starts no run() and returns normally, and main()
\* does not end with an error.
C2_EmptyConfig ==
    ((telegram_token_bots = << >> \/ assistant_id_bots = << >>)
        /\ main # "start_bots") =>
    /\ errorLogged
    /\ bots = << >>
    /\ pc = << >>
    /\ startBots = "returned"
    /\ mainResult # "raised"

C2_Witness ==
    /\ telegram_token_bots = << >>
    /\ main = "exited"
    /\ errorLogged
    /\ startBots = "returned"
    /\ mainResult = "returned"

\* run() of instance i ended at its initialize() call, and not by cancellation
InitializeFailed(i) == endedAt[i] = "initialize" /\ pc[i] # "cancelled"

AllReachedPolling ==
    /\ Len(bots) >= 1
    /\ \A i \in Instances : pc[i] = "run_polling" \/ endedAt[i] = "run_polling"

\* run_polling() of instance i raised
PollingFailed(i) == pc[i] = "raised" /\ endedAt[i] = "run_polling"

\* C4 (as claimed): when the only failures are failures of run_polling(),
\* no interrupt was received and no stop() was called on instance j, an
\* instance j that is in run_polling() beside a failed sibling has no
\* cancellation requested on it: it stays Polling.
C4_SiblingsKeepPolling ==
    \A i, j \in Instances :
        ( /\ i # j
          /\ PollingFailed(i)
          /\ \A k \in Instances : pc[k] = "raised" => PollingFailed(k)
          /\ pc[j] = "run_polling"
          /\ shutdownCalls[j] = 0
          /\ interrupts = 0 ) =>
        RunState(j) = "Polling"

\* after an interrupt received while start_bots awaits the instances, every
\* instance has ended or has a cancellation requested, and a process that
\* exits after that one interrupt leaves every instance Stopped
C5_StopRequestedOnAll ==
    startBots = "cancelled" =>
    /\ \A i \in Instances : Terminal(i) \/ cancelReq[i]
    /\ (main = "exited" /\ interrupts = 1) =>
          \A i \in Instances : RunState(i) = "Stopped"

\* C5: an interrupt received while start_bots awaits the instances requests
\* a stop (cancellation) on every instance that has not ended, the process
\* then exits, and when it exits after that one interrupt every instance is
\* Stopped: none is left Polling or Stopping.
C5_SignalStopsAll ==
    /\ []C5_StopRequestedOnAll
    /\ (startBots = "cancelled") ~> (main = "exited")

\* two instances were polling when the single interrupt came; both were
\* cancelled there and the process has exited
C5_Witness ==
    /\ Len(bots) = 2
    /\ startBots = "cancelled"
    /\ interrupts = 1
    /\ main = "exited"
    /\ \A i \in Instances : pc[i] = "cancelled" /\ endedAt[i] = "run_polling"

Rank(st) ==
    IF st = "Created" THEN 0
    ELSE IF st = "Initializing" THEN 1
    ELSE IF st = "Polling" THEN 2
    ELSE IF st = "Stopping" THEN 3
    ELSE 4

C7_TeardownOnce ==
    \A i \in Instances : shutdownCalls[i] <= 1

\* C8 (as claimed): when the instances were polling and a second interrupt
\* arrives during the shutdown that the first one started, every instance is
\* Stopped when the process exits.
C8_DoubleSignalStopsAll ==
    ( /\ AllReachedPolling
      /\ startBots = "cancelled"
      /\ interrupts >= 2
      /\ main = "exited" ) =>
    \A i \in Instances : RunState(i) = "Stopped"

\* C9 (as claimed): once every instance has reached polling, start_bots
\* completes without an interrupt only by returning normally, and only when
\* every instance has ended on its own, none of them cancelled.
C9_CompletesWhenAllExited ==
    (AllReachedPolling /\ interrupts = 0 /\ startBots # "pending") =>
    /\ startBots = "returned"
    /\ \A i \in Instances : Terminal(i) /\ ~cancelReq[i]

\* C10: a process that was interrupted while start_bots awaited the running
\* instances ends with main() returning normally.
C10_InterruptExitsCleanly ==
    (startBots = "cancelled" /\ main = "exited") => mainResult = "returned"

\* the interrupt came while an instance was polling, and main() has returned
C10_Witness ==
    /\ startBots = "cancelled"
    /\ main = "exited"
    /\ mainResult = "returned"
    /\ \E i \in Instances : pc[i] = "cancelled" /\ endedAt[i] = "run_polling"


\* C11: when the latest handled event went to process_message on instance
\* i, the dispatcher was called with the assistant id of pair i and the
\* reply went out on the token of pair i, and with neither of any other
\* instance.
C11_OwnDispatcherBinding ==
    last.callback = "process_message" =>
    /\ last.bot \in Instances
    /\ last.assistant_id = assistant_id_bots[last.bot]
    /\ last.token = telegram_token_bots[last.bot]
    /\ \A j \in Instances \ {last.bot} :
          /\ last.assistant_id # bots[j].assistant_id
          /\ last.token # bots[j].telegram_token

\* both instances polling, "hello" delivered to instance 1: dispatcher
\* called with asst1, reply on tokA, instance 2 untouched
C11_Witness ==
    /\ Len(bots) = 2
    /\ RunState(1) = "Polling" /\ RunState(2) = "Polling"
    /\ last = [bot |-> 1, update |-> [is_command |-> FALSE, text |-> "hello"],
               callback |-> "process_message",
               assistant_id |-> "asst1", token |-> "tokA"]
    /\ call = << "in_flight", "idle" >>


\* C12: an instance that has no cancellation pending can take the next step
\* of its run() whatever the other instances are waiting in, and an instance
\* in run_polling() is taken out of Polling only by a stop() on it, an
\* interrupt or a failure, never by another instance standing still.
C12_IndependentProgress ==
    \A i \in Instances :
        /\ (LoopRunning /\ ~cancelReq[i]) =>
              /\ pc[i] = "created" => ENABLED RunStart(i)
              /\ pc[i] = "initialize" => ENABLED InitializeOk(i)
              /\ pc[i] = "set_my_commands" => ENABLED SetCommandsOk(i)
        /\ ( /\ pc[i] = "run_polling"
             /\ shutdownCalls[i] = 0
             /\ interrupts = 0
             /\ \A j \in Instances : pc[j] # "raised" ) =>
              RunState(i) = "Polling"

\* instance 1 is still waiting in initialize() while instance 2, started
\* after it, has reached polling
C12_Witness ==
    /\ Len(bots) = 2
    /\ pc[1] = "initialize" /\ ~cancelReq[1]
    /\ RunState(2) = "Polling"
    /\ main = "gather"


\* C13 (as claimed): an instance that the shutdown started by an interrupt
\* has brought to Stopped has had no exchange with the dispatcher cut off: a
\* call in flight was left to complete first.
C13_InFlightCallCompletes ==
    \A i \in Instances :
        ( /\ startBots = "cancelled"
          /\ pc[i] = "cancelled"
          /\ RunState(i) = "Stopped" ) => call[i] # "cut"

\* C14: a step in which the dispatcher call of instance i fails leaves
\* instance i Polling and the run state of every other instance as it was.
C14_DispatchErrorIsLocal ==
    [][\A i \in Instances :
          (call[i] = "in_flight" /\ call'[i] = "fallback") =>
          /\ RunState(i) = "Polling"
          /\ RunState(i)' = "Polling"
          /\ \A j \in Instances \ {i} : RunState(j)' = RunState(j)]_vars

\* the dispatcher failed on instance 1; both instances are polling
C14_Witness ==
    /\ Len(bots) = 2
    /\ call[1] = "fallback"
    /\ RunState(1) = "Polling"
    /\ RunState(2) = "Polling"


\* C15: a handled start or help command ran the command callback of that
\* name and called no dispatcher, and a handled text that is no command ran
\* process_message; this is also what every instance's registered handlers
\* do with every update.
C15_CommandsLocalTextDispatched ==
    /\ last.bot # 0 =>
          /\ (last.update.is_command /\ last.update.text = "start") =>
                (last.callback = "start" /\ last.assistant_id = "none")
          /\ (last.update.is_command /\ last.update.text = "help") =>
                (last.callback = "help_command" /\ last.assistant_id = "none")
          /\ ~last.update.is_command => last.callback = "process_message"
    /\ \A i \in Instances, u \in Updates :
          Route(application[i].registered, u) =
             IF ~u.is_command THEN "process_message"
             ELSE IF u.text = "start" THEN "start"
             ELSE IF u.text = "help" THEN "help_command"
             ELSE "none"

\* instance 2 has answered a text through the dispatcher and then handled a
\* help command locally
C15_Witness ==
    /\ Len(bots) = 2
    /\ RunState(2) = "Polling"
    /\ call[2] = "replied"
    /\ last = [bot |-> 2, update |-> [is_command |-> TRUE, text |-> "help"],
               callback |-> "help_command", assistant_id |-> "none",
               token |-> "none"]


\* C16: every instance has its three handlers registered from construction
\* on; the completed startup calls of an instance are always a prefix of
\* initialize, set_my_commands that matches its position; an instance that is
\* polling, or that ended while polling, completed both calls; and an
\* instance whose run() ended at an earlier step has ended for good without
\* ever polling.
C16_StartupOrder ==
    \A i \in Instances :
        /\ application[i].registered = SetupHandlers
        /\ pc[i] \in {"constructed", "created", "initialize"} => steps[i] = << >>
        /\ pc[i] = "set_my_commands" => steps[i] = << "initialize" >>
        /\ (pc[i] = "run_polling" \/ endedAt[i] = "run_polling") =>
              steps[i] = << "initialize", "set_my_commands" >>
        /\ endedAt[i] = "initialize" => steps[i] = << >>
        /\ endedAt[i] = "set_my_commands" => steps[i] = << "initialize" >>
        /\ endedAt[i] # "none" => (Terminal(i) /\ pc[i] # "run_polling")

\* instance 1 failed in set_my_commands and never polled; instance 2 went
\* through both calls and is polling
C16_Witness ==
    /\ Len(bots) = 2
    /\ pc[1] = "raised" /\ endedAt[1] = "set_my_commands"
    /\ steps[1] = << "initialize" >>
    /\ pc[2] = "run_polling"
    /\ steps[2] = << "initialize", "set_my_commands" >>


\* C17: when start_bots reaches its gather the instances are exactly the
\* positional pairs up to the length of the shorter list, and no error was
\* logged or raised for the entries beyond it; lists of different nonzero
\* lengths never lead to the configuration error; when exactly one list is
\* empty, start_bots logs the configuration error, builds nothing and returns.
C17_ShorterListDecides ==
    LET n == Min(Len(telegram_token_bots), Len(assistant_id_bots))
        oneEmpty == (telegram_token_bots = << >>) # (assistant_id_bots = << >>)
    IN  /\ main = "gather" =>
              /\ bots = [k \in 1..n |-> Bot(telegram_token_bots[k], assistant_id_bots[k])]
              /\ ~errorLogged
              /\ startBots = "pending"
        /\ n > 0 => ~errorLogged
        /\ (oneEmpty /\ main # "start_bots") =>
              /\ errorLogged
              /\ bots = << >>
              /\ startBots = "returned"
              /\ main \notin {"construct", "gather"}

\* three tokens and one assistant id: one instance launched, two tokens unused
C17_Witness ==
    /\ Len(telegram_token_bots) = 3 /\ Len(assistant_id_bots) = 1
    /\ main = "gather"
    /\ Len(bots) = 1
    /\ bots[1] = Bot(telegram_token_bots[1], assistant_id_bots[1])
    /\ ~errorLogged


\* C18: while start_bots is still building its list no instance has a task
\* for its run() or has made a startup call; an instance has a task only when
\* every pair has been built; and when building a pair raised, every instance
\* built before it stays without a task: none is initialized, none polls.
C18_ConstructAllFirst ==
    LET pairs == Zip(telegram_token_bots, assistant_id_bots)
        untouched(i) == pc[i] = "constructed" /\ steps[i] = << >> /\ endedAt[i] = "none"
    IN  /\ main \in {"start_bots", "construct"} => \A i \in Instances : untouched(i)
        /\ (\E i \in Instances : pc[i] # "constructed") => Len(bots) = Len(pairs)
        /\ (startBots = "raised" /\ Len(bots) < Len(pairs)) =>
              \A i \in Instances : untouched(i)

\* the second of two pairs failed to build: main() has ended with the error
\* and the instance built first never ran
C18_Witness ==
    /\ Len(Zip(telegram_token_bots, assistant_id_bots)) = 2
    /\ Len(bots) = 1
    /\ startBots = "raised"
    /\ main = "exited" /\ mainResult = "raised"
    /\ pc[1] = "constructed" /\ steps[1] = << >>


\* C19: as soon as the run() of one instance has raised while start_bots
\* awaits the gather, the gather can complete and start_bots raises, whatever
\* the other instances are doing; start_bots raises out of the gather only
\* for an exception of some run(); and when no interrupt arrives, main()
\* ends with that error after every other instance was ended by cancellation.
C19_FirstExceptionEndsProcess ==
    /\ (main = "gather" /\ \E i \in Instances : pc[i] = "raised") =>
          (GatherResult = "raised" /\ ENABLED GatherCompletes)
    /\ (startBots = "raised"
          /\ Len(bots) = Len(Zip(telegram_token_bots, assistant_id_bots))) =>
          \E i \in Instances : pc[i] = "raised" /\ ~cancelReq[i]
    /\ (startBots = "raised" /\ main = "exited" /\ interrupts = 0) =>
          /\ mainResult = "raised"
          /\ \A j \in Instances : pc[j] # "constructed" => Terminal(j)

\* instance 1 raised out of run_polling while instance 2 was polling:
\* start_bots raised, instance 2 was cancelled, main() ended with the error
C19_Witness ==
    /\ Len(bots) = 2
    /\ pc[1] = "raised" /\ endedAt[1] = "run_polling"
    /\ pc[2] = "cancelled" /\ endedAt[2] = "run_polling"
    /\ startBots = "raised"
    /\ interrupts = 0
    /\ main = "exited" /\ mainResult = "raised"

====
